---- MODULE Spec2Model ----
(***************************************************************************)
(* docker-sync: the synchronization engine.                                *)
(*                                                                         *)
(*   Spec    the driver of cmd/root.go (rootCmd.Run), the Syncer of         *)
(*           syncer/syncer.go and the control plane (Docker) it talks to.  *)
(*           Every control-plane call is one step, so that the signal       *)
(*           goroutine's Cleanup interleaves with a Copy in flight.         *)
(*   SpecFW  the FileWatcher (package filewatcher): the Watch loop, its     *)
(*           debounce timers and their callbacks, and a consumer of the     *)
(*           Events and Errors channels.                                    *)
(*   SpecTar the archive Syncer.copyToContainer builds from the source      *)
(*           path: the walk of a directory and the header names.            *)
(*                                                                         *)
(* Strings the code builds or compares by prefix are pairs <<prefix, n>>:   *)
(* "docker-sync-<uuid>" is <<"docker-sync", n>>, the empty string is        *)
(* <<"", 0>>, a container id is <<"ctr", n>>.                               *)
(***************************************************************************)
EXTENDS Integers, Sequences, FiniteSets, TLC

\* ------------------------------------------------------------------ bounds
\* Change events the driver loop receives in one run.
MaxEvents == 2
\* Times the orchestrator reschedules the service's tasks in one run.
MaxResched == 1
\* Calls of Cleanup in one run, where its caller calls it again.
MaxCleanups == 2

\* --------------------------------------------------------------- constants
Container == "Container"
Service == "Service"
TargetTypes == {Container, Service}

\* Options.Identifier, the prefix of every temporary name.
AppIdentifier == "docker-sync"
Empty == <<"", 0>>
\* The identifier the user gave on the command line (a name).
Ident == <<"name", 0>>
\* An identifier that is a prefix of the ids of the service and of the container
\* (the control plane's id filter matches by prefix).
IdPrefix == <<"idprefix", 0>>
\* Options.TargetPath.
TargetPath == "/app"

CtrId(n) == <<"ctr", n>>
\* The container whose name is the identifier, when there is one.
NamedCtr == CtrId(0)
\* The containers of the service's tasks.
TaskCtrs == {<<"task", 1>>, <<"task", 2>>}
SvcId == <<"svc", 0>>
\* The ForceUpdate counter of the service when the run starts.
InitialForce == {3}

generateTemporaryName(uuid) == <<AppIdentifier, uuid>>
getTemporaryVolumePath == "/" \o AppIdentifier \o "-data"

\* strings.HasPrefix(name, AppIdentifier)
HasAppPrefix(name) == name[1] = AppIdentifier

Mount(src, tgt) == [type |-> "volume", source |-> src, target |-> tgt]
\* A volume the service's owner mounted.
UserMount == Mount(<<"data", 0>>, "/var/data")
\* The relay mount an earlier run left attached (it ended without Cleanup).
StaleMount == Mount(generateTemporaryName(0), TargetPath)
\* A tmpfs mount of the service: a mount of this type has no source.
TmpfsMount == [type |-> "tmpfs", source |-> Empty, target |-> "/tmp"]
InitMounts == {<<>>, <<UserMount>>, <<UserMount, StaleMount>>, <<TmpfsMount, UserMount>>}

Actors == {"main", "sig"}

\* The fsnotify operations an event can carry (a bit set in the code).
Ops == {"Create", "Write", "Remove", "Rename", "Chmod"}
\* The events the detector emits: see processEvent.
EmittedOps == {{"Create"}, {"Write"}, {"Remove"}, {"Rename"}}
Has(event, op) == op \in event

NoSpec == [force |-> 0, mounts |-> <<>>, version |-> 0]
NoLoc == [container |-> Empty, mountTemp |-> FALSE, spec |-> NoSpec,
          info |-> <<>>, hadTemp |-> FALSE, oldCtr |-> Empty,
          newId |-> Empty, err |-> FALSE]

VARIABLES
    pc,          \* pc[a]: where goroutine a is ("main": Run, "sig": the signal goroutine)
    loc,         \* loc[a]: the locals of the Syncer method goroutine a is in
    exitCode,    \* -1 while the process runs, then the code it exited with
    syncer,      \* the fields of the Syncer
    containers,  \* control plane: id -> [state, name, mounts, files] of every container that exists
    volumes,     \* control plane: the names of the volumes that exist
    svc,         \* control plane: the service named Ident: [exists, force, mounts, version]
    tasks,       \* control plane: the containers of the service's running tasks, in list order
    nextId,      \* control plane: the number of the next id or uuid it hands out
    calls,       \* history: calls["main"], the control-plane calls of the Copy in flight (or
                 \* the last one); calls["sig"], those of Cleanup
    copyErr,     \* history: whether the last Copy returned an error
    hist,        \* history: counters and initial values the properties speak of
    \* ---- the FileWatcher (SpecFW)
    fsKind,          \* the file system: path -> "absent", "file" or "dir" (what os.Stat finds)
    watcherEvents,   \* fw.Watcher.Events: the notifications fsnotify has not delivered yet
    watcherError,    \* fw.Watcher.Errors holds an error
    watchPc,         \* where the Watch goroutine is
    debounceTimers,  \* Watch's map: path -> the timer recorded for it
    timers,          \* every timer time.AfterFunc created: [path, event, state,
                     \* burst, received]; received is what the consumer got from it
    watchSet,        \* the directories added to the watcher
    consumerPc,      \* where the goroutine receiving from fw.Events and fw.Errors is
    fwHist,          \* history: counters
    \* ---- copyToContainer (SpecTar)
    tarPc,           \* where copyToContainer is
    tarHost,         \* the path convention of the host: "unix" or "windows"
    tarDest,         \* containerPath
    tarSource,       \* what is at sourcePath: [kind, nodes]
    walkQueue,       \* filepath.Walk: the entries still to visit, in order
    archive          \* the headers written to the tar writer: [name, node, dir]

mainVars == <<pc, loc, exitCode, syncer, containers, volumes, svc, tasks, nextId,
              calls, copyErr, hist>>
fwVars == <<fsKind, watcherEvents, watcherError, watchPc, debounceTimers, timers,
            watchSet, consumerPc, fwHist>>
tarVars == <<tarPc, tarHost, tarDest, tarSource, walkQueue, archive>>
vars == <<mainVars, fwVars, tarVars>>

Alive == exitCode = -1

Running == [state |-> "running", name |-> Empty, mounts |-> <<>>, files |-> 0]

\* One logged control-plane call.
Call(op, tgt, path, ok, spec) ==
    [op |-> op, tgt |-> tgt, path |-> path, ok |-> ok, spec |-> spec]

\* ------------------------------------------------------- the control plane
\* ContainerList lists the running containers only (ListOptions.All is unset).
\* The id filter: needle is the id or a prefix of it.
MatchesId(needle, id) == needle = id \/ (needle = IdPrefix /\ id \in {SvcId, NamedCtr})

ContainerListById(needle) ==
    {id \in DOMAIN containers :
        containers[id].state = "running" /\ MatchesId(needle, id)}
ContainerListByName(needle) ==
    {id \in DOMAIN containers :
        containers[id].state = "running" /\ containers[id].name = needle}
ServiceListById(needle) == IF svc.exists /\ MatchesId(needle, SvcId) THEN {SvcId} ELSE {}
ServiceListByName(needle) == IF svc.exists /\ needle = Ident THEN {SvcId} ELSE {}

\* containers[0].ID of a listing, "" when it is empty.
FirstOf(listing) == IF listing = {} THEN Empty ELSE CHOOSE id \in listing : TRUE

findContainerById(needle) == FirstOf(ContainerListById(needle))
findContainerByName(needle) == FirstOf(ContainerListByName(needle))
findServiceById(needle) == FirstOf(ServiceListById(needle))
findServiceByName(needle) == FirstOf(ServiceListByName(needle))

findTargetContainer(target) ==
    LET id == findContainerById(target)
    IN  IF id # Empty THEN id ELSE findContainerByName(target)

findTargetService(target) ==
    LET id == findServiceById(target)
    IN  IF id # Empty THEN id ELSE findServiceByName(target)

\* tasks[0]'s container, "" when no task is listed as running.
getContainerIdForTargetService == IF tasks = <<>> THEN Empty ELSE Head(tasks)

Exists(id) == id \in DOMAIN containers

RemoveCtr(id) == [c \in DOMAIN containers \ {id} |-> containers[c]]

\* ------------------------------------------------------------ control flow
Goto(a, label, L) ==
    /\ pc' = [pc EXCEPT ![a] = label]
    /\ loc' = [loc EXCEPT ![a] = L]
    /\ UNCHANGED <<exitCode, copyErr, hist>>

\* Cleanup returns to the signal goroutine (err: whether it returns an error).
CleanupReturns(err) == Goto("sig", "cl_exit", [NoLoc EXCEPT !.err = err])

\* Mutant: the driver loop returns from Run when Copy failed.
LoopAfterCopy_ReturnOnError(err) == IF err THEN "returned" ELSE "select"

\* The driver loop after Copy returned err: the error is printed, the loop goes on.
LoopAfterCopy(err) == "select"

\* The code the signal goroutine exits with after Cleanup returned err.
ExitAfterCleanup(err) == 0

\* The Syncer method goroutine a is in returns (err: whether it returns an error).
\* For "main" the method is Copy, called from the driver loop; for "sig" it is
\* recreateTargetContainer or updateTargetService, called from Cleanup.
Finish(a, err) ==
    IF a = "main"
    THEN /\ pc' = [pc EXCEPT ![a] = LoopAfterCopy(err)]
         /\ loc' = [loc EXCEPT ![a] = NoLoc]
         /\ copyErr' = err
         /\ hist' = [hist EXCEPT !.okCopies = @ + (IF err THEN 0 ELSE 1),
                                 !.returned = @ + 1]
         /\ UNCHANGED exitCode
    ELSE IF err
         THEN CleanupReturns(TRUE)
         ELSE Goto(a, "cl_rmctr", NoLoc)

Log(a, c) == calls' = [calls EXCEPT ![a] = Append(@, c)]

\* ------------------------------------------------------------- Syncer.Init
\* Mutant: the container wins over the service.
ResolveTarget_ContainerFirst(service, container) ==
    IF container # Empty
    THEN [type |-> Container, id |-> container]
    ELSE [type |-> Service, id |-> service]

\* The target Init resolves: the service when there is one, else the container.
ResolveTarget(service, container) ==
    IF service = Empty
    THEN [type |-> Container, id |-> container]
    ELSE [type |-> Service, id |-> service]

\* Mutant: an identifier that matches nothing is not an error.
Found_IgnoreEmpty(listOk, id) == listOk

\* Init goes on when the listings succeeded and one of them gave an id.
Found(listOk, id) == listOk /\ id # Empty

\* Mutant: the relay is created for every target to be restarted.
NeedsRelay_AnyTarget(type, restart) == restart

\* if syncer.targetType == Service && syncer.restartTarget { createTemporaryContainerWithVolume }
NeedsRelay(type, restart) == type = Service /\ restart

\* Init with every control-plane call succeeding or not (listOk: the listings,
\* volOk: VolumeCreate, ctrOk: ContainerCreate of the relay container).
InitResult(listOk, volOk, ctrOk) ==
    LET service == findTargetService(syncer.target)
        container == findTargetContainer(syncer.target)
        t == ResolveTarget(service, container)
        found == Found(listOk, t.id)
        relay == found /\ NeedsRelay(t.type, syncer.restartTarget)
        vol == generateTemporaryName(nextId)
        ctr == CtrId(nextId + 1)
    IN  [ok |-> found /\ (relay => volOk /\ ctrOk),
         containerConsulted |-> listOk /\ service = Empty,
         target |-> IF found THEN t.id ELSE syncer.target,
         targetType |-> IF found THEN t.type ELSE syncer.targetType,
         volume |-> IF relay /\ volOk THEN vol ELSE Empty,
         container |-> IF relay /\ volOk /\ ctrOk THEN ctr ELSE Empty]

\* root.go: err = dockerSyncer.Init(); if err != nil { ...; os.Exit(1) }
RunInit ==
    /\ UNCHANGED <<fwVars, tarVars>>
    /\ Alive /\ pc["main"] = "init"
    /\ \E listOk, volOk, ctrOk \in BOOLEAN :
        LET r == InitResult(listOk, volOk, ctrOk)
        IN  /\ syncer' = [syncer EXCEPT !.target = r.target,
                                        !.targetType = r.targetType,
                                        !.temporaryVolume = r.volume,
                                        !.temporaryContainer = r.container]
            /\ volumes' = IF r.volume # Empty THEN volumes \cup {r.volume} ELSE volumes
            /\ containers' =
                 IF r.container # Empty
                 THEN (r.container :> [state |-> "created", name |-> generateTemporaryName(nextId + 2),
                                       mounts |-> <<Mount(r.volume, getTemporaryVolumePath)>>,
                                       files |-> 0]) @@ containers
                 ELSE containers
            /\ nextId' = nextId + 3
            /\ hist' = [hist EXCEPT !.volsCreated = @ + (IF r.volume # Empty THEN 1 ELSE 0),
                                    !.ctrsCreated = @ + (IF r.container # Empty THEN 1 ELSE 0),
                                    !.initOk = r.ok,
                                    !.initRan = TRUE,
                                    !.relayVol = r.volume,
                                    !.relayCtr = r.container,
                                    !.containerConsulted = r.containerConsulted]
            /\ IF r.ok
               THEN pc' = [pc EXCEPT !["main"] = "notify"] /\ UNCHANGED exitCode
               ELSE exitCode' = 1 /\ UNCHANGED pc
    /\ UNCHANGED <<loc, svc, tasks, calls, copyErr>>

\* root.go: signal.Notify(signals, os.Interrupt, syscall.SIGTERM); go func() {...}()
RunSignalNotify ==
    /\ UNCHANGED <<fwVars, tarVars>>
    /\ Alive /\ pc["main"] = "notify"
    /\ pc' = [pc EXCEPT !["main"] = "newfw", !["sig"] = "wait"]
    /\ UNCHANGED <<loc, exitCode, syncer, containers, volumes, svc, tasks, nextId,
                   calls, copyErr, hist>>

\* root.go: fw, err := filewatcher.NewFileWatcher(); if err != nil { ...; os.Exit(1) }
RunNewFileWatcher ==
    /\ UNCHANGED <<fwVars, tarVars>>
    /\ Alive /\ pc["main"] = "newfw"
    /\ \E ok \in BOOLEAN :
        IF ok
        THEN pc' = [pc EXCEPT !["main"] = "addwatch"] /\ UNCHANGED exitCode
        ELSE exitCode' = 1 /\ UNCHANGED pc
    /\ UNCHANGED <<loc, syncer, containers, volumes, svc, tasks, nextId,
                   calls, copyErr, hist>>

\* root.go: err = fw.AddWatch(absoluteSourcePath); if err != nil { ...; os.Exit(1) }
RunAddWatch ==
    /\ UNCHANGED <<fwVars, tarVars>>
    /\ Alive /\ pc["main"] = "addwatch"
    /\ \E ok \in BOOLEAN :
        IF ok
        THEN pc' = [pc EXCEPT !["main"] = "select"] /\ UNCHANGED exitCode
        ELSE exitCode' = 1 /\ UNCHANGED pc
    /\ UNCHANGED <<loc, syncer, containers, volumes, svc, tasks, nextId,
                   calls, copyErr, hist>>

\* ------------------------------------------------------------- Syncer.Copy
\* Mutant: for a service without restart the container is not looked up again.
CopyEntry_NoResolve(type, restart) == IF type = Container THEN "find" ELSE "copy"

\* Where Copy starts, by (targetType, restartTarget).
CopyEntry(type, restart) ==
    IF type = Container THEN "find"
    ELSE IF ~restart THEN "svcfind"
    ELSE "copy"

\* Mutant: the restart is issued whether the transfer succeeded or not.
NextAfterTransfer_IgnoreError(ok, type, restart) ==
    IF ~restart THEN (IF ok THEN "return" ELSE "return_err")
    ELSE IF type = Container THEN "rc_inspect"
    ELSE "us_inspect"

\* Mutant: the restart is issued whether the restart flag is set or not.
NextAfterTransfer_IgnoreFlag(ok, type, restart) ==
    IF ~ok THEN "return_err"
    ELSE IF type = Container THEN "rc_inspect"
    ELSE "us_inspect"

\* Copy after copyToContainer returned: the restart only after a transfer that
\* succeeded, and only with the restart flag set.
NextAfterTransfer(ok, type, restart) ==
    IF ~ok THEN "return_err"
    ELSE IF ~restart THEN "return"
    ELSE IF type = Container THEN "rc_inspect"
    ELSE "us_inspect"

\* The positions of a goroutine inside Copy (or inside the restart Cleanup makes).
CopyPcs == {"find", "svcfind", "copy", "rc_inspect", "rc_stop", "rc_create", "rc_remove",
            "rc_start", "us_inspect", "us_getctr", "us_update", "us_rmold"}

\* Mutant: each event is handled without waiting for the Copy in flight.
LoopReceives_DuringCopy(p) == p = "select" \/ p \in CopyPcs

\* The driver receives from fw.Events only at its select: Copy is called in the
\* loop's own goroutine and the loop comes back to the select when it returned.
LoopReceives(p) == p = "select"

\* Mutant: the driver calls Copy for every event it receives.
TriggersCopy_Always(event) == TRUE

\* if event.Has(filewatcher.Create) || event.Has(filewatcher.Write)
TriggersCopy(event) == Has(event, "Create") \/ Has(event, "Write")

\* root.go, the driver loop: case event := <-fw.Events.
DriverRecvEvent ==
    /\ UNCHANGED <<fwVars, tarVars>>
    /\ Alive /\ LoopReceives(pc["main"])
    /\ hist.events < MaxEvents
    /\ \E event \in EmittedOps :
        IF TriggersCopy(event)
        THEN /\ pc' = [pc EXCEPT !["main"] = CopyEntry(syncer.targetType, syncer.restartTarget)]
             /\ hist' = [hist EXCEPT !.events = @ + 1, !.copies = @ + 1]
             /\ calls' = [calls EXCEPT !["main"] = <<>>]
        ELSE /\ hist' = [hist EXCEPT !.events = @ + 1]
             /\ UNCHANGED <<pc, calls>>
    /\ UNCHANGED <<loc, exitCode, syncer, containers, volumes, svc, tasks, nextId, copyErr>>

\* root.go, the driver loop: case err := <-fw.Errors.
DriverRecvError ==
    /\ UNCHANGED <<fwVars, tarVars>>
    /\ Alive /\ pc["main"] = "select"
    /\ hist' = [hist EXCEPT !.errors = TRUE]
    /\ UNCHANGED <<pc, loc, exitCode, syncer, containers, volumes, svc, tasks, nextId,
                   calls, copyErr>>

\* Copy, Container target: container, err := syncer.findTargetContainer()
CopyFind ==
    /\ UNCHANGED <<fwVars, tarVars>>
    /\ Alive /\ pc["main"] = "find"
    /\ \E ok \in BOOLEAN :
        LET c == IF ok THEN findTargetContainer(syncer.target) ELSE Empty
        IN  /\ Log("main", Call("resolve", c, "", ok, NoSpec))
            /\ IF ok
               THEN Goto("main", "copy", [loc["main"] EXCEPT !.container = c])
               ELSE Finish("main", TRUE)
    /\ UNCHANGED <<syncer, containers, volumes, svc, tasks, nextId>>

\* Copy, Service target without restart: container, err := syncer.getContainerIdForTargetService()
CopySvcFind ==
    /\ UNCHANGED <<fwVars, tarVars>>
    /\ Alive /\ pc["main"] = "svcfind"
    /\ \E ok \in BOOLEAN :
        LET c == IF ok THEN getContainerIdForTargetService ELSE Empty
        IN  /\ Log("main", Call("resolve", c, "", ok, NoSpec))
            /\ IF ok
               THEN Goto("main", "copy", [loc["main"] EXCEPT !.container = c])
               ELSE Finish("main", TRUE)
    /\ UNCHANGED <<syncer, containers, volumes, svc, tasks, nextId>>

\* Mutant: the transfer goes to the container found for the event, in every mode.
TransferTarget_Found(type, restart, found) == [ctr |-> found, path |-> TargetPath]

\* The container and the path Copy hands to copyToContainer.
TransferTarget(type, restart, found) ==
    IF type = Service /\ restart
    THEN [ctr |-> syncer.temporaryContainer, path |-> getTemporaryVolumePath]
    ELSE [ctr |-> found, path |-> TargetPath]

\* What copyToContainer can come to: the archive cannot be built (no call is
\* made), client.CopyToContainer fails, or it succeeds.
TransferOutcomes == {"archive_failed", "transport_failed", "ok"}

\* Copy: err = syncer.copyToContainer(localPath, container, path).
\* client.CopyToContainer fails for a container that does not exist.
CopyTransfer ==
    /\ UNCHANGED <<fwVars, tarVars>>
    /\ Alive /\ pc["main"] = "copy"
    /\ \E outcome \in TransferOutcomes :
        LET t == TransferTarget(syncer.targetType, syncer.restartTarget, loc["main"].container)
            ok == outcome = "ok" /\ Exists(t.ctr)
            next == NextAfterTransfer(ok, syncer.targetType, syncer.restartTarget)
        IN  /\ IF outcome = "archive_failed"
               THEN UNCHANGED calls
               ELSE Log("main", Call("copy", t.ctr, t.path, ok, NoSpec))
            /\ containers' = IF ok THEN [containers EXCEPT ![t.ctr].files = hist.copies]
                             ELSE containers
            /\ CASE next = "return_err" -> Finish("main", TRUE)
                 [] next = "return" -> Finish("main", FALSE)
                 [] OTHER -> Goto("main", next, [loc["main"] EXCEPT !.mountTemp = TRUE])
    /\ UNCHANGED <<syncer, volumes, svc, tasks, nextId>>

\* ------------------------------------------- Syncer.recreateTargetContainer
\* The mounts of the container recreateTargetContainer creates.
NewContainerMounts(mounts, tempVol, mountTemp) ==
    LET kept == SelectSeq(mounts, LAMBDA m : m.source # tempVol)
    IN  IF mountTemp THEN Append(kept, Mount(tempVol, TargetPath)) ELSE kept

\* containerInfo, err := syncer.client.ContainerInspect(ctx, syncer.target)
RcInspect(a) ==
    /\ UNCHANGED <<fwVars, tarVars>>
    /\ Alive /\ pc[a] = "rc_inspect"
    /\ \E ok \in BOOLEAN :
        IF ok /\ Exists(syncer.target)
        THEN Goto(a, "rc_stop", [loc[a] EXCEPT !.info = containers[syncer.target].mounts])
        ELSE Finish(a, TRUE)
    /\ UNCHANGED <<syncer, containers, volumes, svc, tasks, nextId, calls>>

\* err = syncer.client.ContainerStop(ctx, syncer.target, ...)
RcStop(a) ==
    /\ UNCHANGED <<fwVars, tarVars>>
    /\ Alive /\ pc[a] = "rc_stop"
    /\ \E ok \in BOOLEAN :
        LET done == ok /\ Exists(syncer.target)
        IN  /\ Log(a, Call("stop", syncer.target, "", done, NoSpec))
            /\ IF done
               THEN /\ containers' = [containers EXCEPT ![syncer.target].state =
                                         IF @ = "running" THEN "exited" ELSE @]
                    /\ Goto(a, "rc_create", loc[a])
               ELSE UNCHANGED containers /\ Finish(a, TRUE)
    /\ UNCHANGED <<syncer, volumes, svc, tasks, nextId>>

\* newTarget, err := syncer.client.ContainerCreate(...); syncer.target = newTarget.ID
RcCreate(a) ==
    /\ UNCHANGED <<fwVars, tarVars>>
    /\ Alive /\ pc[a] = "rc_create"
    /\ \E ok \in BOOLEAN :
        LET id == CtrId(nextId)
            mounts == NewContainerMounts(loc[a].info, syncer.temporaryVolume, loc[a].mountTemp)
        IN  /\ Log(a, Call("create", IF ok THEN id ELSE Empty, "", ok, NoSpec))
            /\ IF ok
               THEN /\ containers' = (id :> [state |-> "created", name |-> Empty,
                                             mounts |-> mounts, files |-> 0]) @@ containers
                    /\ nextId' = nextId + 1
                    /\ syncer' = [syncer EXCEPT !.target = id]
                    /\ Goto(a, "rc_remove", [loc[a] EXCEPT !.newId = id])
               ELSE UNCHANGED <<containers, nextId, syncer>> /\ Finish(a, TRUE)
    /\ UNCHANGED <<volumes, svc, tasks>>

\* err = syncer.client.ContainerRemove(ctx, syncer.target, container.RemoveOptions{})
\* Without Force, a running container is not removed.
RcRemove(a) ==
    /\ UNCHANGED <<fwVars, tarVars>>
    /\ Alive /\ pc[a] = "rc_remove"
    /\ \E ok \in BOOLEAN :
        LET done == /\ ok /\ Exists(syncer.target)
                    /\ containers[syncer.target].state # "running"
        IN  /\ Log(a, Call("remove", syncer.target, "", done, NoSpec))
            /\ IF done
               THEN containers' = RemoveCtr(syncer.target) /\ Goto(a, "rc_start", loc[a])
               ELSE UNCHANGED containers /\ Finish(a, TRUE)
    /\ UNCHANGED <<syncer, volumes, svc, tasks, nextId>>

\* err = syncer.client.ContainerStart(ctx, newTarget.ID, ...)
RcStart(a) ==
    /\ UNCHANGED <<fwVars, tarVars>>
    /\ Alive /\ pc[a] = "rc_start"
    /\ \E ok \in BOOLEAN :
        LET done == ok /\ Exists(loc[a].newId)
        IN  /\ Log(a, Call("start", loc[a].newId, "", done, NoSpec))
            /\ containers' = IF done THEN [containers EXCEPT ![loc[a].newId].state = "running"]
                             ELSE containers
            /\ Finish(a, ~done)
    /\ UNCHANGED <<syncer, volumes, svc, tasks, nextId>>

\* ----------------------------------------------- Syncer.updateTargetService
\* hadTempVolume: the inspected spec has a mount whose source is the relay volume.
HadTempVolume(spec, tempVol) ==
    \E i \in 1..Len(spec.mounts) : spec.mounts[i].source = tempVol

\* Mutant: the relay mount is appended without stripping the one already attached.
NewServiceSpec_NoStrip(spec, tempVol, mountTemp) ==
    [force |-> spec.force + 1,
     mounts |-> IF mountTemp THEN Append(spec.mounts, Mount(tempVol, TargetPath))
                ELSE spec.mounts,
     version |-> spec.version]

\* Mutant: the force-update counter is left as inspected.
NewServiceSpec_NoIncrement(spec, tempVol, mountTemp) ==
    LET kept == SelectSeq(spec.mounts, LAMBDA m : m.source # tempVol)
    IN  [force |-> spec.force,
         mounts |-> IF mountTemp THEN Append(kept, Mount(tempVol, TargetPath)) ELSE kept,
         version |-> spec.version]

\* The spec updateTargetService submits, from the one it inspected.
NewServiceSpec(spec, tempVol, mountTemp) ==
    LET kept == SelectSeq(spec.mounts, LAMBDA m : m.source # tempVol)
    IN  [force |-> spec.force + 1,
         mounts |-> IF mountTemp THEN Append(kept, Mount(tempVol, TargetPath)) ELSE kept,
         version |-> spec.version]

\* serviceInfo, _, err := syncer.client.ServiceInspectWithRaw(...), and the spec
\* built from it in memory.
UsInspect(a) ==
    /\ UNCHANGED <<fwVars, tarVars>>
    /\ Alive /\ pc[a] = "us_inspect"
    /\ \E ok \in BOOLEAN :
        LET done == ok /\ svc.exists /\ syncer.target = SvcId
            read == IF done
                    THEN [force |-> svc.force, mounts |-> svc.mounts, version |-> svc.version]
                    ELSE NoSpec
            had == HadTempVolume(read, syncer.temporaryVolume)
        IN  /\ Log(a, Call("inspect", syncer.target, "", done, read))
            /\ IF done
               THEN Goto(a, IF had THEN "us_getctr" ELSE "us_update",
                         [loc[a] EXCEPT !.hadTemp = had,
                              !.spec = NewServiceSpec(read, syncer.temporaryVolume,
                                                      loc[a].mountTemp)])
               ELSE Finish(a, TRUE)
    /\ UNCHANGED <<syncer, containers, volumes, svc, tasks, nextId>>

\* if hadTempVolume { containerId, _ = syncer.getContainerIdForTargetService() }
UsGetCtr(a) ==
    /\ UNCHANGED <<fwVars, tarVars>>
    /\ Alive /\ pc[a] = "us_getctr"
    /\ \E ok \in BOOLEAN :
        Goto(a, "us_update",
             [loc[a] EXCEPT !.oldCtr = IF ok THEN getContainerIdForTargetService ELSE Empty])
    /\ UNCHANGED <<syncer, containers, volumes, svc, tasks, nextId, calls>>

\* _, err = syncer.client.ServiceUpdate(ctx, syncer.target, serviceInfo.Version, spec, ...)
\* The control plane rejects an update made from a version that is not the current one.
UsUpdate(a) ==
    /\ UNCHANGED <<fwVars, tarVars>>
    /\ Alive /\ pc[a] = "us_update"
    /\ \E ok \in BOOLEAN :
        LET done == ok /\ svc.exists /\ loc[a].spec.version = svc.version
        IN  /\ Log(a, Call("update", syncer.target, "", done, loc[a].spec))
            /\ IF done
               THEN /\ svc' = [svc EXCEPT !.force = loc[a].spec.force,
                                          !.mounts = loc[a].spec.mounts,
                                          !.version = @ + 1]
                    /\ IF loc[a].hadTemp /\ loc[a].oldCtr # Empty
                       THEN Goto(a, "us_rmold", loc[a])
                       ELSE Finish(a, FALSE)
               ELSE UNCHANGED svc /\ Finish(a, TRUE)
    /\ UNCHANGED <<syncer, containers, volumes, tasks, nextId>>

\* syncer.client.ContainerRemove(ctx, containerId, RemoveOptions{Force: true}), its
\* result ignored.
UsRmOld(a) ==
    /\ UNCHANGED <<fwVars, tarVars>>
    /\ Alive /\ pc[a] = "us_rmold"
    /\ \E ok \in BOOLEAN :
        LET done == ok /\ Exists(loc[a].oldCtr)
        IN  /\ Log(a, Call("remove", loc[a].oldCtr, "", done, NoSpec))
            /\ containers' = IF done THEN RemoveCtr(loc[a].oldCtr) ELSE containers
            /\ tasks' = IF done THEN SelectSeq(tasks, LAMBDA c : c # loc[a].oldCtr) ELSE tasks
            /\ Finish(a, FALSE)
    /\ UNCHANGED <<syncer, volumes, svc, nextId>>

\* ---------------------------------------------------------- Syncer.Cleanup
\* The signal goroutine: <-signals, then err := dockerSyncer.Cleanup(), which
\* starts with recreateTargetContainer(false) or updateTargetService(false).
Signal ==
    /\ UNCHANGED <<fwVars, tarVars>>
    /\ Alive /\ pc["sig"] = "wait"
    /\ pc' = [pc EXCEPT !["sig"] = IF syncer.targetType = Container
                                   THEN "rc_inspect" ELSE "us_inspect"]
    /\ loc' = [loc EXCEPT !["sig"] = [NoLoc EXCEPT !.mountTemp = FALSE]]
    /\ hist' = [hist EXCEPT !.cleanups = @ + 1]
    /\ UNCHANGED <<exitCode, syncer, containers, volumes, svc, tasks, nextId, calls, copyErr>>

\* A termination signal before signal.Notify was called: the Go runtime's default,
\* the process dies at once (exit status 2 for SIGINT).
SignalDefault ==
    /\ UNCHANGED <<fwVars, tarVars>>
    /\ Alive /\ pc["sig"] = "off"
    /\ exitCode' = 2
    /\ UNCHANGED <<pc, loc, syncer, containers, volumes, svc, tasks, nextId, calls,
                   copyErr, hist>>

\* err := syncer.client.ContainerRemove(ctx, syncer.temporaryContainer, RemoveOptions{Force: true})
ClRemoveContainer ==
    /\ UNCHANGED <<fwVars, tarVars>>
    /\ Alive /\ pc["sig"] = "cl_rmctr"
    /\ \E ok \in BOOLEAN :
        LET done == ok /\ Exists(syncer.temporaryContainer)
        IN  /\ Log("sig", Call("remove", syncer.temporaryContainer, "", done, NoSpec))
            /\ IF done
               THEN /\ containers' = RemoveCtr(syncer.temporaryContainer)
                    /\ Goto("sig", "cl_rmvol", loc["sig"])
               ELSE UNCHANGED containers /\ CleanupReturns(TRUE)
    /\ UNCHANGED <<syncer, volumes, svc, tasks, nextId>>

\* Mutant: Cleanup resets the whole record, the target kind and the restart flag
\* included.
Cleared_WholeRecord(s) ==
    [s EXCEPT !.temporaryContainer = Empty, !.temporaryVolume = Empty,
              !.targetType = Container, !.restartTarget = FALSE]

\* syncer.temporaryContainer = ""; syncer.temporaryVolume = ""
Cleared(s) == [s EXCEPT !.temporaryContainer = Empty, !.temporaryVolume = Empty]

\* err = syncer.client.VolumeRemove(ctx, syncer.temporaryVolume, true); then the two
\* fields are cleared and Cleanup returns nil.
ClRemoveVolume ==
    /\ UNCHANGED <<fwVars, tarVars>>
    /\ Alive /\ pc["sig"] = "cl_rmvol"
    /\ \E ok \in BOOLEAN :
        /\ Log("sig", Call("volumeRemove", syncer.temporaryVolume, "", ok, NoSpec))
        /\ IF ok
           THEN /\ volumes' = volumes \ {syncer.temporaryVolume}
                /\ syncer' = Cleared(syncer)
                /\ CleanupReturns(FALSE)
           ELSE UNCHANGED <<volumes, syncer>> /\ CleanupReturns(TRUE)
    /\ UNCHANGED <<containers, svc, tasks, nextId>>

\* The signal goroutine after Cleanup returned: if err != nil { print }; os.Exit(0).
\* Every goroutine stops where it is.
SignalExit ==
    /\ UNCHANGED <<fwVars, tarVars>>
    /\ Alive /\ pc["sig"] = "cl_exit"
    /\ exitCode' = ExitAfterCleanup(loc["sig"].err)
    /\ UNCHANGED <<pc, loc, syncer, containers, volumes, svc, tasks, nextId, calls,
                   copyErr, hist>>

\* A caller invokes Cleanup once more after it returned nil (as the deferred
\* dockerSyncer.Cleanup() of Run would, after the signal goroutine's call).
CleanupAgain ==
    /\ UNCHANGED <<fwVars, tarVars>>
    /\ Alive /\ pc["sig"] = "cl_exit" /\ ~loc["sig"].err
    /\ hist.cleanups < MaxCleanups
    /\ pc' = [pc EXCEPT !["sig"] = IF syncer.targetType = Container
                                   THEN "rc_inspect" ELSE "us_inspect"]
    /\ loc' = [loc EXCEPT !["sig"] = [NoLoc EXCEPT !.mountTemp = FALSE]]
    /\ hist' = [hist EXCEPT !.cleanups = @ + 1]
    /\ calls' = [calls EXCEPT !["sig"] = <<>>]
    /\ UNCHANGED <<exitCode, syncer, containers, volumes, svc, tasks, nextId, copyErr>>

\* ------------------------------------------------------------ environment
\* The orchestrator replaces the service's tasks (a rolling update, a reschedule).
EnvReschedule ==
    /\ UNCHANGED <<fwVars, tarVars>>
    /\ Alive /\ svc.exists /\ pc["main"] # "init"
    /\ hist.resched < MaxResched
    /\ \E c \in TaskCtrs :
        /\ tasks # <<c>>
        /\ tasks' = <<c>>
        /\ containers' = (c :> [Running EXCEPT !.mounts = svc.mounts]) @@
                         [x \in DOMAIN containers \ TaskCtrs |-> containers[x]]
    /\ hist' = [hist EXCEPT !.resched = @ + 1]
    /\ UNCHANGED <<pc, loc, exitCode, syncer, volumes, svc, nextId, calls, copyErr>>

\* Someone else removes the relay container (docker rm, a prune).
EnvRemoveRelay ==
    /\ UNCHANGED <<fwVars, tarVars>>
    /\ Alive /\ hist.initOk
    /\ hist.relayCtr # Empty /\ Exists(hist.relayCtr)
    /\ containers' = RemoveCtr(hist.relayCtr)
    /\ UNCHANGED <<pc, loc, exitCode, syncer, svc, tasks, volumes, nextId, calls, copyErr,
                   hist>>

\* ------------------------------------------------------------------- Spec
InitialTasks == {<<>>, <<CHOOSE c \in TaskCtrs : TRUE>>}

MainInit ==
    /\ pc = [a \in Actors |-> IF a = "main" THEN "init" ELSE "off"]
    /\ loc = [a \in Actors |-> NoLoc]
    /\ exitCode = -1
    /\ \E restart \in BOOLEAN, ident \in {Ident, IdPrefix} :
        syncer = [target |-> ident, targetType |-> Container, restartTarget |-> restart,
                  temporaryContainer |-> Empty, temporaryVolume |-> Empty]
    /\ \E hasSvc, hasCtr \in BOOLEAN, mounts \in InitMounts, ts \in InitialTasks,
          force \in InitialForce :
        /\ ~hasSvc => mounts = <<>> /\ ts = <<>>
        /\ svc = [exists |-> hasSvc, force |-> force, mounts |-> mounts, version |-> 0]
        /\ tasks = ts
        /\ containers =
             [c \in (IF hasCtr THEN {NamedCtr} ELSE {}) \cup {ts[i] : i \in 1..Len(ts)} |->
                 IF c = NamedCtr THEN [Running EXCEPT !.name = Ident]
                 ELSE [Running EXCEPT !.mounts = mounts]]
        /\ hist = [events |-> 0, errors |-> FALSE, copies |-> 0, okCopies |-> 0, returned |-> 0,
               cleanups |-> 0,
                   resched |-> 0, volsCreated |-> 0, ctrsCreated |-> 0, initOk |-> FALSE,
                   initRan |-> FALSE, containerConsulted |-> FALSE, relayVol |-> Empty,
                   relayCtr |-> Empty, force0 |-> force, mounts0 |-> mounts,
                   hadSvc |-> hasSvc, hadCtr |-> hasCtr]
    /\ volumes = {}
    /\ nextId = 1
    /\ calls = [a \in Actors |-> <<>>]
    /\ copyErr = FALSE

\* =========================================================== FileWatcher
\* ------------------------------------------------------------------ bounds
\* Notifications and errors fsnotify reports in one run.
MaxNotifs == 3

\* A path that is a regular file whenever it exists, and one that is a directory.
FilePath == "a"
DirPath == "d"
Paths == {FilePath, DirPath}
KindOf(path) == IF path = DirPath THEN "dir" ELSE "file"
Kinds == [Paths -> {"absent", "file", "dir"}]
\* The watched tree when the run starts: one of the two paths exists.
InitialKinds == {k \in Kinds : \E p \in Paths :
                    \A q \in Paths : k[q] = IF q = p THEN KindOf(q) ELSE "absent"}
Notif(path, op) == [path |-> path, event |-> {op}]

\* The burst a notification on path belongs to: the burst of the notification
\* before it on that path when that one's quiet window has not elapsed yet (its
\* timer has not expired), else a new burst.
TimersOf(path) == {t \in 1..Len(timers) : timers[t].path = path}
LastTimer(path) == CHOOSE t \in TimersOf(path) : \A u \in TimersOf(path) : u <= t
BurstOf(path) ==
    IF TimersOf(path) = {} THEN 1
    ELSE IF timers[LastTimer(path)].state = "armed" THEN timers[LastTimer(path)].burst
    ELSE timers[LastTimer(path)].burst + 1

\* ------------------------------------------------------------ file system
\* The file system changes and fsnotify offers the notification on its unbuffered
\* Events channel, one at a time. fsnotify drops the watch of a directory that is
\* removed or renamed.
Notify(path, op, kind) ==
    /\ fwHist.notifs < MaxNotifs
    /\ watcherEvents = <<>>
    /\ watchPc # "returned" /\ ~fwHist.closed
    /\ fsKind' = [fsKind EXCEPT ![path] = kind]
    /\ watcherEvents' = Append(watcherEvents, Notif(path, op))
    /\ watchSet' = IF kind = "absent" THEN watchSet \ {path} ELSE watchSet
    /\ fwHist' = [fwHist EXCEPT !.notifs = @ + 1]
    /\ UNCHANGED <<watcherError, watchPc, debounceTimers, timers, consumerPc>>
    /\ UNCHANGED <<mainVars, tarVars>>

FsCreateFile == fsKind[FilePath] = "absent" /\ Notify(FilePath, "Create", "file")
FsMkdir == fsKind[DirPath] = "absent" /\ Notify(DirPath, "Create", "dir")
FsWrite == fsKind[FilePath] = "file" /\ Notify(FilePath, "Write", "file")
FsChmod == \E path \in Paths : fsKind[path] # "absent" /\ Notify(path, "Chmod", fsKind[path])
FsRemove == \E path \in Paths : fsKind[path] # "absent" /\ Notify(path, "Remove", "absent")
FsRename == \E path \in Paths : fsKind[path] # "absent" /\ Notify(path, "Rename", "absent")

\* fsnotify reports an error on fw.Watcher.Errors.
FsError ==
    /\ fwHist.notifs < MaxNotifs
    /\ ~watcherError /\ ~fwHist.errored /\ watchPc # "returned" /\ ~fwHist.closed
    /\ watcherError' = TRUE
    /\ fwHist' = [fwHist EXCEPT !.errored = TRUE, !.notifs = @ + 1]
    /\ UNCHANGED <<fsKind, watcherEvents, watchPc, debounceTimers, timers, watchSet,
                   consumerPc>>
    /\ UNCHANGED <<mainVars, tarVars>>

\* ------------------------------------------------------- FileWatcher.Watch
\* Mutant: the timer recorded for the path is not stopped.
StopRecorded_Never(ts, path) == ts

\* if timer, exists := debounceTimers[event.Name]; exists { timer.Stop() }
\* Stop has no effect on a timer that has expired.
StopRecorded(ts, path) ==
    IF path \in DOMAIN debounceTimers /\ ts[debounceTimers[path]].state = "armed"
    THEN [ts EXCEPT ![debounceTimers[path]].state = "stopped"]
    ELSE ts

\* case event, ok := <-fw.Watcher.Events: mu.Lock(); the timer recorded for the
\* path is stopped and a new one, recorded in its place, is started. Watch holds
\* the mutex (watchPc = "locked") until WatchUnlock.
WatchEvent ==
    /\ watchPc = "select" /\ watcherEvents # <<>>
    /\ LET n == Head(watcherEvents)
           id == Len(timers) + 1
       IN  /\ timers' = Append(StopRecorded(timers, n.path),
                               [path |-> n.path, event |-> n.event, state |-> "armed",
                                burst |-> BurstOf(n.path), received |-> "none"])
           /\ debounceTimers' = (n.path :> id) @@ debounceTimers
    /\ watcherEvents' = Tail(watcherEvents)
    /\ watchPc' = "locked"
    /\ UNCHANGED <<fsKind, watcherError, watchSet, consumerPc, fwHist>>
    /\ UNCHANGED <<mainVars, tarVars>>

\* The Watch loop at its select: once Close was called, case <-fw.done (or a
\* receive from a closed channel of the watcher) makes it return.
WatchSelect(closed) == IF closed THEN "returned" ELSE "select"

\* mu.Unlock() at the end of case event; Watch is back at its select.
WatchUnlock ==
    /\ watchPc = "locked"
    /\ watchPc' = WatchSelect(fwHist.closed)
    /\ UNCHANGED <<fsKind, watcherEvents, watcherError, debounceTimers, timers, watchSet,
                   consumerPc, fwHist>>
    /\ UNCHANGED <<mainVars, tarVars>>

\* FileWatcher.Close: close(fw.done); fw.Watcher.Close(). The watch is stopped:
\* fsnotify closes its channels and delivers nothing more, and the Watch loop
\* returns from its select. fw.Events and fw.Errors are left open.
FWClose ==
    /\ ~fwHist.closed
    /\ fwHist' = [fwHist EXCEPT !.closed = TRUE]
    /\ watcherEvents' = <<>>
    /\ watcherError' = FALSE
    /\ watchPc' = IF watchPc = "select" THEN WatchSelect(TRUE) ELSE watchPc
    /\ UNCHANGED <<fsKind, debounceTimers, timers, watchSet, consumerPc>>
    /\ UNCHANGED <<mainVars, tarVars>>

\* case err, ok := <-fw.Watcher.Errors: fw.Errors <- err blocks until it is received.
WatchError ==
    /\ watchPc = "select" /\ watcherError
    /\ watcherError' = FALSE
    /\ watchPc' = "send_error"
    /\ UNCHANGED <<fsKind, watcherEvents, debounceTimers, timers, watchSet, consumerPc,
                   fwHist>>
    /\ UNCHANGED <<mainVars, tarVars>>

\* ------------------------------------------------ FileWatcher.processEvent
\* Mutant: an event whose path cannot be stat'ed is dropped silently.
processEvent_SwallowStatError(event, kind) ==
    IF Has(event, "Remove") THEN "send_event"
    ELSE IF kind = "absent" THEN "return"
    ELSE IF kind = "dir" THEN (IF Has(event, "Create") THEN "add_watch" ELSE "return")
    ELSE IF Has(event, "Create") \/ Has(event, "Write") \/ Has(event, "Rename")
    THEN "send_event"
    ELSE "return"

\* What processEvent does with an event, given what os.Stat finds at its path.
processEvent(event, kind) ==
    IF Has(event, "Remove") THEN "send_event"
    ELSE IF kind = "absent" THEN "send_error"
    ELSE IF kind = "dir" THEN (IF Has(event, "Create") THEN "add_watch" ELSE "return")
    ELSE IF Has(event, "Create") \/ Has(event, "Write") \/ Has(event, "Rename")
    THEN "send_event"
    ELSE "return"

\* A timer expires (timers of one duration expire in the order they were started)
\* and its callback calls fw.processEvent(event), up to its send or its return.
TimerFire(t) ==
    /\ timers[t].state = "armed"
    /\ \A u \in 1..(t - 1) : timers[u].state # "armed"
    /\ LET todo == processEvent(timers[t].event, fsKind[timers[t].path])
       IN  /\ timers' = [timers EXCEPT ![t].state =
                            IF todo \in {"send_event", "send_error"} THEN todo ELSE "unlock"]
           /\ watchSet' = IF todo = "add_watch" /\ ~fwHist.closed
                          THEN watchSet \cup {timers[t].path}
                          ELSE watchSet
    /\ UNCHANGED <<fsKind, watcherEvents, watcherError, watchPc, debounceTimers, consumerPc,
                   fwHist>>
    /\ UNCHANGED <<mainVars, tarVars>>

\* Mutant: the callback deletes from the map without taking the mutex.
MutexFree_NotTaken(p) == TRUE

\* mu.Lock() in the callback returns once Watch does not hold the mutex.
MutexFree(p) == p # "locked"

\* The callback after processEvent returned: mu.Lock(); delete(debounceTimers,
\* event.Name); mu.Unlock().
TimerUnlock(t) ==
    /\ timers[t].state = "unlock"
    /\ MutexFree(watchPc)
    /\ timers' = [timers EXCEPT ![t].state = "done"]
    /\ debounceTimers' = [q \in DOMAIN debounceTimers \ {timers[t].path} |-> debounceTimers[q]]
    /\ UNCHANGED <<fsKind, watcherEvents, watcherError, watchPc, watchSet, consumerPc,
                   fwHist>>
    /\ UNCHANGED <<mainVars, tarVars>>

\* ------------------------------------------- the driver loop, as consumer
\* case event := <-fw.Events, from the callback of timer t: the driver calls Copy
\* for an event that has Create or Write.
ConsumeEvent(t) ==
    /\ consumerPc = "select"
    /\ timers[t].state = "send_event"
    /\ timers' = [timers EXCEPT ![t].state = "unlock", ![t].received = "event"]
    /\ consumerPc' = IF TriggersCopy(timers[t].event) THEN "copy" ELSE "select"
    /\ UNCHANGED <<fsKind, watcherEvents, watcherError, watchPc, debounceTimers, watchSet,
                   fwHist>>
    /\ UNCHANGED <<mainVars, tarVars>>

\* case err := <-fw.Errors, from the callback of timer t.
ConsumeTimerError(t) ==
    /\ consumerPc = "select"
    /\ timers[t].state = "send_error"
    /\ timers' = [timers EXCEPT ![t].state = "unlock", ![t].received = "error"]
    /\ UNCHANGED <<fsKind, watcherEvents, watcherError, watchPc, debounceTimers, watchSet,
                   consumerPc, fwHist>>
    /\ UNCHANGED <<mainVars, tarVars>>

\* case err := <-fw.Errors, from the Watch goroutine.
ConsumeWatchError ==
    /\ consumerPc = "select"
    /\ watchPc = "send_error"
    /\ watchPc' = WatchSelect(fwHist.closed)
    /\ fwHist' = [fwHist EXCEPT !.watchErrors = @ + 1]
    /\ UNCHANGED <<fsKind, watcherEvents, watcherError, debounceTimers, timers, watchSet,
                   consumerPc>>
    /\ UNCHANGED <<mainVars, tarVars>>

\* dockerSyncer.Copy returns and the driver loops.
ConsumeDone ==
    /\ consumerPc = "copy"
    /\ consumerPc' = "select"
    /\ UNCHANGED <<fsKind, watcherEvents, watcherError, watchPc, debounceTimers, timers,
                   watchSet, fwHist>>
    /\ UNCHANGED <<mainVars, tarVars>>

\* ------------------------------------------------------------------ Specs
\* NewFileWatcher and AddWatch(root) have run: the Watch goroutine waits, no timer
\* is pending, the root directory is watched.
FWInit ==
    /\ fsKind \in InitialKinds
    /\ watcherEvents = <<>>
    /\ watcherError = FALSE
    /\ watchPc = "select"
    /\ debounceTimers = <<>>
    /\ timers = <<>>
    /\ watchSet = {"."} \cup {q \in Paths : fsKind[q] = "dir"}
    /\ consumerPc = "select"
    /\ fwHist = [notifs |-> 0, watchErrors |-> 0, errored |-> FALSE, closed |-> FALSE]

\* The FileWatcher as Spec leaves it: not looked at.
FWIdle ==
    /\ fsKind = [q \in Paths |-> "absent"]
    /\ watcherEvents = <<>>
    /\ watcherError = FALSE
    /\ watchPc = "select"
    /\ debounceTimers = <<>>
    /\ timers = <<>>
    /\ watchSet = {"."}
    /\ consumerPc = "select"
    /\ fwHist = [notifs |-> 0, watchErrors |-> 0, errored |-> FALSE, closed |-> FALSE]

\* The Syncer as SpecFW leaves it: not looked at.
MainIdle ==
    /\ pc = [a \in Actors |-> IF a = "main" THEN "select" ELSE "wait"]
    /\ loc = [a \in Actors |-> NoLoc]
    /\ exitCode = -1
    /\ syncer = [target |-> NamedCtr, targetType |-> Container, restartTarget |-> FALSE,
                 temporaryContainer |-> Empty, temporaryVolume |-> Empty]
    /\ svc = [exists |-> FALSE, force |-> 0, mounts |-> <<>>, version |-> 0]
    /\ tasks = <<>>
    /\ containers = (NamedCtr :> [Running EXCEPT !.name = Ident])
    /\ hist = [events |-> 0, errors |-> FALSE, copies |-> 0, okCopies |-> 0, returned |-> 0,
               cleanups |-> 0,
               resched |-> 0, volsCreated |-> 0, ctrsCreated |-> 0, initOk |-> TRUE,
               initRan |-> TRUE, containerConsulted |-> TRUE, relayVol |-> Empty,
               relayCtr |-> Empty, force0 |-> 0, mounts0 |-> <<>>,
               hadSvc |-> FALSE, hadCtr |-> TRUE]
    /\ volumes = {}
    /\ nextId = 1
    /\ calls = [a \in Actors |-> <<>>]
    /\ copyErr = FALSE

\* ======================================================= copyToContainer
\* The archive copyToContainer builds (SpecTar). A path is a sequence of tokens:
\* a token is a separator ("/" or "\\") or a piece of a file name. The volume
\* name of a Windows path, which Clean carries over unchanged, is left out.
Hosts == {"unix", "windows"}

\* os.PathSeparator
Separator(host) == IF host = "windows" THEN "\\" ELSE "/"

\* os.IsPathSeparator
IsPathSeparator(host, c) == c = "/" \/ (host = "windows" /\ c = "\\")

\* The elements of a path between its separators (empty ones included).
RECURSIVE SplitFrom(_, _, _, _)
SplitFrom(host, text, i, cur) ==
    IF i > Len(text) THEN <<cur>>
    ELSE IF IsPathSeparator(host, text[i])
         THEN <<cur>> \o SplitFrom(host, text, i + 1, "")
         ELSE SplitFrom(host, text, i + 1, cur \o text[i])

\* The elements Clean keeps: empty and "." elements are dropped, ".." removes the
\* element before it, is dropped at the root and is kept at the start of a
\* relative path.
RECURSIVE CleanElements(_, _, _, _)
CleanElements(elems, i, out, rooted) ==
    IF i > Len(elems) THEN out
    ELSE LET e == elems[i]
         IN  IF e = "" \/ e = "." THEN CleanElements(elems, i + 1, out, rooted)
             ELSE IF e = ".."
                  THEN IF Len(out) > 0 /\ out[Len(out)] # ".."
                       THEN CleanElements(elems, i + 1, SubSeq(out, 1, Len(out) - 1), rooted)
                       ELSE IF rooted THEN CleanElements(elems, i + 1, out, rooted)
                       ELSE CleanElements(elems, i + 1, Append(out, e), rooted)
                  ELSE CleanElements(elems, i + 1, Append(out, e), rooted)

\* The elements with one separator between each two.
RECURSIVE Interleave(_, _)
Interleave(elems, sep) ==
    IF Len(elems) = 0 THEN <<>>
    ELSE IF Len(elems) = 1 THEN <<elems[1]>>
    ELSE <<elems[1], sep>> \o Interleave(Tail(elems), sep)

\* filepath.Clean: the shortest equivalent path, written with the host separator.
Clean(host, text) ==
    LET rooted == Len(text) > 0 /\ IsPathSeparator(host, text[1])
        elems == CleanElements(SplitFrom(host, text, 1, ""), 1, <<>>, rooted)
        root == IF rooted THEN <<Separator(host)>> ELSE <<>>
    IN  IF elems = <<>> /\ ~rooted THEN <<".">>
        ELSE root \o Interleave(elems, Separator(host))

\* filepath.Join of two elements: empty elements are ignored, the result is cleaned.
Join(host, a, b) ==
    IF a = <<>> /\ b = <<>> THEN <<>>
    ELSE IF a = <<>> THEN Clean(host, b)
    ELSE IF b = <<>> THEN Clean(host, a)
    ELSE Clean(host, a \o <<Separator(host)>> \o b)

\* filepath.Rel for a path at or below the base (the only case Walk produces).
Rel(host, base, targ) ==
    LET b == Clean(host, base)
        t == Clean(host, targ)
    IN  IF t = b THEN <<".">>
        ELSE IF b = <<Separator(host)>> THEN SubSeq(t, 2, Len(t))
        ELSE SubSeq(t, Len(b) + 2, Len(t))

\* Mutant: the header name keeps the separators of the host.
ToSlash_KeepHost(host, text) == text

\* filepath.ToSlash: each host separator replaced by a slash.
ToSlash(host, text) ==
    IF Separator(host) = "/" THEN text
    ELSE [i \in 1..Len(text) |-> IF text[i] = Separator(host) THEN "/" ELSE text[i]]

\* ---- the inputs
\* sourcePath after filepath.Abs.
SourcePath(host) == <<Separator(host), "src">>

\* The destination paths given on the command line (any non-empty text without a
\* colon is accepted).
Destinations(host) ==
    IF host = "windows"
    THEN {<<"/", "app">>, <<"\\", "app">>, <<"/", "app", "/">>, <<"app">>, <<".">>}
    ELSE {<<"/", "app">>, <<"/", "app", "/">>, <<"app">>, <<"/">>, <<".">>}

\* The entries a source directory can hold, each named by the names leading to it
\* from the source root; the names of directories.
AllNodes == {<<"a.txt">>, <<"sub">>, <<"sub", "b.txt">>, <<"sub", "e">>}
DirNames == {"sub", "e"}
\* The names in the order sort.Strings gives them.
NameOrder == <<"a.txt", "b.txt", "e", "sub">>
\* The trees: with an entry, the directory holding it.
Trees == {S \in SUBSET AllNodes : \A n \in S : Len(n) > 1 => SubSeq(n, 1, Len(n) - 1) \in S}
\* The sources: a regular file, or a directory holding one of the trees.
Sources == {[kind |-> "file", nodes |-> {}]} \cup {[kind |-> "dir", nodes |-> S] : S \in Trees}

\* info.IsDir() of the entry n of the source (<<>> is the source itself).
IsDir(source, n) ==
    IF n = <<>> THEN source.kind = "dir" ELSE n[Len(n)] \in DirNames

\* readDirNames: the names in directory n, sorted.
readDirNames(source, n) ==
    SelectSeq(NameOrder, LAMBDA name : Append(n, name) \in source.nodes)

\* The path Walk hands to its callback for entry n: the root, or the path of
\* the directory holding n joined with n's name.
RECURSIVE WalkPath(_, _)
WalkPath(host, n) ==
    IF n = <<>> THEN SourcePath(host)
    ELSE Join(host, WalkPath(host, SubSeq(n, 1, Len(n) - 1)), <<n[Len(n)]>>)

\* headerPath of the Walk callback.
HeaderPath(host, dest, n) ==
    ToSlash(host, Join(host, dest, Rel(host, SourcePath(host), WalkPath(host, n))))

\* headerPath of a single-file source: the destination joined with the base name.
FileHeaderPath(host, dest) ==
    LET path == SourcePath(host) IN ToSlash(host, Join(host, dest, <<path[Len(path)]>>))

\* Mutant: only regular files get a header.
addToArchive_FilesOnly(ar, entry) == IF entry.dir THEN ar ELSE Append(ar, entry)

\* addToArchive: one header (followed by the contents of a regular file).
addToArchive(ar, entry) == Append(ar, entry)

\* ---- the steps of copyToContainer
\* sourceInfo, err := os.Stat(sourcePath)
TarStat ==
    /\ UNCHANGED <<mainVars, fwVars>>
    /\ tarPc = "stat"
    /\ \E ok \in BOOLEAN :
        IF ok
        THEN /\ tarPc' = IF tarSource.kind = "dir" THEN "walk" ELSE "file"
             /\ walkQueue' = IF tarSource.kind = "dir" THEN << <<>> >> ELSE <<>>
        ELSE tarPc' = "failed" /\ UNCHANGED walkQueue
    /\ UNCHANGED <<tarHost, tarDest, tarSource, archive>>

\* One call of the Walk callback: for the next entry in lexical order, the header
\* path is computed and addToArchive called; Walk then descends into a directory.
\* An lstat, header, open or read error ends the walk.
TarWalk ==
    /\ UNCHANGED <<mainVars, fwVars>>
    /\ tarPc = "walk"
    /\ \E ok \in BOOLEAN :
        LET n == Head(walkQueue)
            entry == [name |-> HeaderPath(tarHost, tarDest, n), node |-> n,
                      dir |-> IsDir(tarSource, n)]
            below == IF IsDir(tarSource, n)
                     THEN [i \in 1..Len(readDirNames(tarSource, n)) |->
                              Append(n, readDirNames(tarSource, n)[i])]
                     ELSE <<>>
        IN  IF ok
            THEN /\ archive' = addToArchive(archive, entry)
                 /\ walkQueue' = below \o Tail(walkQueue)
                 /\ tarPc' = IF walkQueue' = <<>> THEN "close" ELSE "walk"
            ELSE tarPc' = "failed" /\ UNCHANGED <<archive, walkQueue>>
    /\ UNCHANGED <<tarHost, tarDest, tarSource>>

\* The source is a regular file: one entry named after its base name.
TarFile ==
    /\ UNCHANGED <<mainVars, fwVars>>
    /\ tarPc = "file"
    /\ \E ok \in BOOLEAN :
        IF ok
        THEN /\ archive' = addToArchive(archive, [name |-> FileHeaderPath(tarHost, tarDest),
                                                   node |-> <<>>, dir |-> FALSE])
             /\ tarPc' = "close"
        ELSE tarPc' = "failed" /\ UNCHANGED archive
    /\ UNCHANGED <<tarHost, tarDest, tarSource, walkQueue>>

\* tw.Close(); the archive is then handed to client.CopyToContainer.
TarClose ==
    /\ UNCHANGED <<mainVars, fwVars>>
    /\ tarPc = "close"
    /\ \E ok \in BOOLEAN : tarPc' = IF ok THEN "built" ELSE "failed"
    /\ UNCHANGED <<tarHost, tarDest, tarSource, walkQueue, archive>>

\* copyToContainer is entered with a source and a destination path.
TarInit ==
    /\ tarPc = "stat"
    /\ tarHost \in Hosts
    /\ tarDest \in Destinations(tarHost)
    /\ tarSource \in Sources
    /\ walkQueue = <<>>
    /\ archive = <<>>

\* The archive as Spec and SpecFW leave it: not looked at.
TarIdle ==
    /\ tarPc = "off"
    /\ tarHost = "unix"
    /\ tarDest = <<"/", "app">>
    /\ tarSource = [kind |-> "dir", nodes |-> {}]
    /\ walkQueue = <<>>
    /\ archive = <<>>

Init == MainInit /\ FWIdle /\ TarIdle

Next ==
    \/ RunInit
    \/ RunSignalNotify
    \/ RunNewFileWatcher
    \/ RunAddWatch
    \/ DriverRecvEvent
    \/ DriverRecvError
    \/ CopyFind
    \/ CopySvcFind
    \/ CopyTransfer
    \/ \E a \in Actors : RcInspect(a)
    \/ \E a \in Actors : RcStop(a)
    \/ \E a \in Actors : RcCreate(a)
    \/ \E a \in Actors : RcRemove(a)
    \/ \E a \in Actors : RcStart(a)
    \/ \E a \in Actors : UsInspect(a)
    \/ \E a \in Actors : UsGetCtr(a)
    \/ \E a \in Actors : UsUpdate(a)
    \/ \E a \in Actors : UsRmOld(a)
    \/ Signal
    \/ SignalDefault
    \/ ClRemoveContainer
    \/ ClRemoveVolume
    \/ SignalExit
    \/ EnvReschedule
    \/ EnvRemoveRelay

Spec == Init /\ [][Next]_vars

\* The Syncer with Cleanup called again by its caller after it succeeded.
NextAgain == Next \/ CleanupAgain

SpecAgain == Init /\ [][NextAgain]_vars

InitFW == MainIdle /\ FWInit /\ TarIdle

NextFW ==
    \/ FsCreateFile
    \/ FsMkdir
    \/ FsWrite
    \/ FsChmod
    \/ FsRemove
    \/ FsRename
    \/ FsError
    \/ WatchEvent
    \/ WatchUnlock
    \/ WatchError
    \/ FWClose
    \/ \E t \in 1..Len(timers) : TimerFire(t)
    \/ \E t \in 1..Len(timers) : TimerUnlock(t)
    \/ \E t \in 1..Len(timers) : ConsumeEvent(t)
    \/ \E t \in 1..Len(timers) : ConsumeTimerError(t)
    \/ ConsumeWatchError
    \/ ConsumeDone

SpecFW == InitFW /\ [][NextFW]_vars

InitTar == MainIdle /\ FWIdle /\ TarInit

NextTar ==
    \/ TarStat
    \/ TarWalk
    \/ TarFile
    \/ TarClose

SpecTar == InitTar /\ [][NextTar]_vars

\* ================================================================= claims
\* The calls of the Copy in flight (or of the last one).
CopyCalls == calls["main"]
CallsOf(cs, op) == {i \in 1..Len(cs) : cs[i].op = op}
\* The calls that restart the target: a container stop, create, remove or start,
\* or a service update.
RestartOps == {"stop", "create", "remove", "start", "update"}
\* Copy has returned at least once and none is in flight.
CopyReturned == pc["main"] = "select" /\ hist.copies >= 1
RelayMounts(mounts) == {i \in 1..Len(mounts) : HasAppPrefix(mounts[i].source)}
ServiceRestart == syncer.targetType = Service /\ syncer.restartTarget
\* The events the consumer received from fw.Events for burst b of a path.
EventsOf(path, b) ==
    {t \in 1..Len(timers) : /\ timers[t].path = path
                            /\ timers[t].burst = b
                            /\ timers[t].received = "event"}

\* C1: a burst of notifications on one path, each handled before the quiet window
\* of the one before it has elapsed, causes exactly one event for that path on the
\* Events channel; stated in its half that holds at every moment: no burst of any
\* path ever has two events emitted for it.
C1_OneEventPerBurst ==
    \A path \in Paths : \A b \in 1..Len(timers) : Cardinality(EventsOf(path, b)) <= 1


\* C2: in the restart paths, every container stop/create/remove/start and every
\* service update Copy issues for an event comes after a transfer of the same
\* event that succeeded; after a failed transfer Copy issues none.
C2_RestartOnlyAfterTransfer ==
    syncer.restartTarget =>
        \A i \in 1..Len(CopyCalls) :
            CopyCalls[i].op \in RestartOps =>
                \E j \in 1..(i - 1) : CopyCalls[j].op = "copy" /\ CopyCalls[j].ok
\* C2 witness: in a restart path a transfer failed, Copy returned the error, and
\* the cycle before had issued its restart.
C2_Witness ==
    /\ syncer.restartTarget /\ CopyReturned /\ copyErr
    /\ hist.okCopies >= 1
    /\ Len(CopyCalls) = 1 /\ CopyCalls[1].op = "copy" /\ ~CopyCalls[1].ok

\* C3: starting from a service spec with no relay mount, the service spec holds
\* at most one mount whose source is a relay volume, after any number of
\* Service+restart cycles, successful or failed.
C3_AtMostOneRelayMount ==
    RelayMounts(hist.mounts0) = {} => Cardinality(RelayMounts(svc.mounts)) <= 1
\* C3 witness: two successful Service+restart cycles, the relay mount attached once.
C3_Witness ==
    /\ ServiceRestart /\ RelayMounts(hist.mounts0) = {}
    /\ CopyReturned /\ hist.okCopies >= 2
    /\ Cardinality(RelayMounts(svc.mounts)) = 1

\* C4: a Copy that returned an error leaves the driver in its loop: the process
\* is not ended by it, and the loop receives the next event.
C4_ErrorKeepsLoop ==
    (Alive /\ copyErr /\ pc["main"] \notin CopyPcs) =>
        /\ pc["main"] = "select"
        /\ hist.events < MaxEvents => ENABLED DriverRecvEvent
\* C4 witness: after a Copy that failed, the next event is being handled.
C4_Witness ==
    Alive /\ copyErr /\ hist.copies >= 2 /\ pc["main"] \in CopyPcs

\* C5 as stated: with the restart flag unset every handled event issues exactly
\* one transfer, to the resolved container at the destination path, and no
\* restart call.
C5_ExactlyOneTransfer ==
    (~syncer.restartTarget /\ CopyReturned) =>
        /\ Cardinality(CallsOf(CopyCalls, "copy")) = 1
        /\ \A i \in CallsOf(CopyCalls, "copy") :
              /\ CopyCalls[i].path = TargetPath
              /\ \E j \in 1..(i - 1) : /\ CopyCalls[j].op = "resolve" /\ CopyCalls[j].ok
                                       /\ CopyCalls[j].tgt = CopyCalls[i].tgt
        /\ \A i \in 1..Len(CopyCalls) : CopyCalls[i].op \notin RestartOps
\* C5 amended: with the restart flag unset every handled event issues at most one
\* transfer (exactly one, successful, when Copy returns no error), addressed to
\* the id its re-resolution returned, at the destination path, and no restart call.
C5_AtMostOneTransfer ==
    ~syncer.restartTarget =>
        /\ Cardinality(CallsOf(CopyCalls, "copy")) <= 1
        /\ (CopyReturned /\ ~copyErr) =>
              \E i \in CallsOf(CopyCalls, "copy") : CopyCalls[i].ok
        /\ \A i \in CallsOf(CopyCalls, "copy") :
              /\ CopyCalls[i].path = TargetPath
              /\ \E j \in 1..(i - 1) : /\ CopyCalls[j].op = "resolve" /\ CopyCalls[j].ok
                                       /\ CopyCalls[j].tgt = CopyCalls[i].tgt
        /\ \A i \in 1..Len(CopyCalls) : CopyCalls[i].op \notin RestartOps
\* C5 witness: without the restart flag, a second event delivered after a first
\* one whose Copy failed.
C5_Witness ==
    /\ ~syncer.restartTarget /\ CopyReturned /\ ~copyErr
    /\ hist.copies >= 2 /\ hist.okCopies = 1
    /\ Cardinality(CallsOf(CopyCalls, "copy")) = 1

\* C6: in Service+restart mode every transfer goes to the relay container at the
\* relay's mount path, and the spec a successful cycle submitted mounts the relay
\* volume at the destination path.
C6_TransfersToRelay ==
    (ServiceRestart /\ hist.initOk) =>
        /\ \A i \in CallsOf(CopyCalls, "copy") :
              /\ CopyCalls[i].tgt = hist.relayCtr
              /\ CopyCalls[i].path = getTemporaryVolumePath
        /\ \A i \in CallsOf(CopyCalls, "update") :
              CopyCalls[i].ok =>
                  \E k \in 1..Len(CopyCalls[i].spec.mounts) :
                      CopyCalls[i].spec.mounts[k] = Mount(hist.relayVol, TargetPath)

\* The successful service updates Cleanup made.
CleanupUpdates == {i \in CallsOf(calls["sig"], "update") : calls["sig"][i].ok}
\* C7: every service update of a restart cycle carries the counter its inspection
\* read plus one; the counter is its initial value plus the number of successful
\* cycles (plus one once Cleanup has updated the service), so that a cycle whose
\* copy failed leaves it unchanged.
C7_ForceUpdateByOne ==
    ServiceRestart =>
        /\ \A i \in CallsOf(CopyCalls, "update") :
              /\ i > 1 /\ CopyCalls[i - 1].op = "inspect" /\ CopyCalls[i - 1].ok
              /\ CopyCalls[i].spec.force = CopyCalls[i - 1].spec.force + 1
        /\ svc.force = hist.force0 + hist.okCopies + Cardinality(CleanupUpdates)
                       + (IF pc["main"] = "us_rmold" THEN 1 ELSE 0)
\* C7 witness: a successful cycle, then one whose copy failed.
C7_Witness ==
    /\ ServiceRestart /\ CopyReturned /\ copyErr
    /\ hist.okCopies = 1 /\ hist.copies = 2
    /\ CallsOf(CopyCalls, "update") = {}
    /\ svc.force = hist.force0 + 1

\* C8: Init resolves service-first: an identifier that matches a service gives a
\* Service target with the service's id, and the containers are looked up only
\* when the service lookups found nothing.
C8_ServiceFirst ==
    hist.initRan =>
        /\ (hist.initOk /\ hist.hadSvc) =>
              /\ syncer.targetType = Service /\ syncer.target = SvcId
              /\ ~hist.containerConsulted
        /\ hist.containerConsulted => ~hist.hadSvc
\* C8 witness: the identifier matches a service and a container, and Init succeeded.
C8_Witness == hist.initOk /\ hist.hadSvc /\ hist.hadCtr /\ syncer.targetType = Service

\* C9: when the identifier matches no service and no container, Init fails, no
\* relay volume or container is created, and the run handles no change event.
C9_NotFoundIsFatal ==
    (~hist.hadSvc /\ ~hist.hadCtr) =>
        /\ hist.initRan => ~hist.initOk /\ exitCode = 1
        /\ hist.volsCreated = 0 /\ hist.ctrsCreated = 0 /\ volumes = {}
        /\ hist.events = 0 /\ hist.copies = 0 /\ pc["main"] = "init"
\* C9 witness: Init ran on an identifier that matches nothing.
C9_Witness == ~hist.hadSvc /\ ~hist.hadCtr /\ hist.initRan

\* C10: after Init succeeded, whenever the process has exited with signal handling
\* set up (on a termination signal or on an error exit), Cleanup has run, once.
C10_CleanupBeforeExit ==
    (hist.initOk /\ ~Alive /\ pc["sig"] # "off") => hist.cleanups = 1

\* The calls that change the target, a container or a volume.
MutatingOps == RestartOps \cup {"volumeRemove"}
\* C11: after a Cleanup that succeeded the relay container and the relay volume
\* are gone, and a later Cleanup call is a no-op: it issues no call that changes
\* the target, a container or a volume (its return value is that of the calls it
\* makes: a no-op makes none and returns success).
C11_CleanupIdempotent ==
    /\ (hist.cleanups >= 1 /\ pc["sig"] = "cl_exit" /\ ~loc["sig"].err) =>
          /\ hist.relayCtr \notin DOMAIN containers
          /\ hist.relayVol \notin volumes
    /\ hist.cleanups >= 2 =>
          \A i \in 1..Len(calls["sig"]) : calls["sig"][i].op \notin MutatingOps

\* C12: when Cleanup's removal of the relay container fails because the container
\* is already gone, Cleanup goes on to remove the relay volume (and reports no
\* failure for the container).
C12_MissingContainerTolerated ==
    [][(/\ pc["sig"] = "cl_rmctr" /\ pc'["sig"] # "cl_rmctr"
        /\ syncer.temporaryContainer # Empty
        /\ ~Exists(syncer.temporaryContainer))
       => pc'["sig"] = "cl_rmvol"]_vars

\* C13: the exit code is 1 when Init fails or when Cleanup on shutdown fails, and 0
\* only when the run is ended by a signal and Cleanup succeeded.
C13_ExitCodes ==
    /\ (hist.initRan /\ ~hist.initOk) => exitCode = 1
    /\ (~Alive /\ pc["sig"] = "cl_exit" /\ loc["sig"].err) => exitCode = 1
    /\ exitCode = 0 => (pc["sig"] = "cl_exit" /\ ~loc["sig"].err)

\* C14: the driver handles one event at a time: a Copy is in flight only when every
\* Copy started before it has returned, so the calls made for an event are all
\* made before the first call for the next one.
C14_OneEventAtATime ==
    /\ hist.copies - hist.returned = (IF pc["main"] \in CopyPcs THEN 1 ELSE 0)
    /\ pc["main"] \notin CopyPcs => loc["main"] = NoLoc
\* C14 witness: a second copy-then-restart cycle is making its calls after the
\* first one returned.
C14_Witness ==
    /\ syncer.restartTarget /\ hist.copies = 2 /\ hist.returned = 1
    /\ pc["main"] \in CopyPcs /\ Len(CopyCalls) >= 2

\* C15: once a termination signal was received and Cleanup has started, the
\* driver loop starts no Copy.
C15_NoCopyAfterShutdown ==
    [][hist'.copies > hist.copies => hist.cleanups = 0]_vars

\* C16: a removal notification bypasses the debounce stage: it does not wait for
\* the quiet window, and no later notification on its path cancels it.
C16_RemoveNotDebounced ==
    \A t \in 1..Len(timers) :
        Has(timers[t].event, "Remove") => timers[t].state \notin {"armed", "stopped"}

\* Every notification on the path has been dealt with: none is queued, no timer
\* of the path is pending and no callback of the path is running.
Settled(path) ==
    /\ \A i \in 1..Len(watcherEvents) : watcherEvents[i].path # path
    /\ \A t \in TimersOf(path) : timers[t].state \in {"stopped", "done"}
\* C17: a create notification for a directory is never emitted on the Events
\* channel, and it causes the directory to be added to the watch set: once its
\* notifications are dealt with, a directory that exists is watched.
C17_NewDirectoryWatched ==
    /\ \A t \in TimersOf(DirPath) :
          Has(timers[t].event, "Create") => timers[t].received # "event"
    /\ (~fwHist.closed /\ fsKind[DirPath] = "dir" /\ Settled(DirPath)) =>
          DirPath \in watchSet

\* A create, write or rename notification (not a removal).
FileOp(event) == event \cap {"Create", "Write", "Rename"} # {} /\ ~Has(event, "Remove")
\* C18: a create/write/rename notification whose path cannot be stat'ed when it is
\* processed sends one error on the Errors channel and no event, and leaves the
\* Watch loop free to handle later notifications.
C18_StatFailureIsError ==
    [][\A t \in 1..Len(timers) :
         FileOp(timers[t].event) =>
            /\ (/\ timers[t].state = "armed"
                /\ timers'[t].state \notin {"armed", "stopped"}
                /\ fsKind[timers[t].path] = "absent")
               => /\ timers'[t].state = "send_error"
                  /\ watchPc' = watchPc /\ watcherEvents' = watcherEvents
            /\ (timers[t].state = "send_error" /\ timers'[t].state # "send_error")
               => timers'[t].received = "error" /\ timers'[t].state = "unlock"
            /\ timers[t].received = "error" => timers'[t].received = "error"
            /\ (timers[t].state \in {"unlock", "done"} /\ timers[t].received # "none")
               => timers'[t].state \in {"unlock", "done"}]_vars
\* C18 witness: the error of a notification whose stat failed was received, and a
\* later notification was processed and its event received.
C18_Witness ==
    \E t, u \in 1..Len(timers) :
        /\ t < u
        /\ FileOp(timers[t].event) /\ timers[t].received = "error"
        /\ timers[u].received = "event"

\* C19: after Close the watch is stopped, and a consumer blocked receiving from
\* the event stream is unblocked: when nothing is left that could send to it, it
\* is not waiting in its receive.
C19_CloseUnblocksConsumer ==
    fwHist.closed =>
        /\ watcherEvents = <<>> /\ ~watcherError
        /\ (watchPc = "returned" /\ \A p \in Paths : Settled(p)) => consumerPc # "select"

\* The containers that carry a temporary name.
RelayContainers == {c \in DOMAIN containers : HasAppPrefix(containers[c].name)}
\* C20: a run creates at most one relay volume and at most one relay container,
\* however many events it handles, and none when the target is a container or
\* the restart flag is unset.
C20_AtMostOneRelay ==
    /\ hist.volsCreated <= 1 /\ hist.ctrsCreated <= 1
    /\ Cardinality(volumes) <= hist.volsCreated
    /\ Cardinality(RelayContainers) <= hist.ctrsCreated
    /\ ~ServiceRestart => hist.volsCreated = 0 /\ hist.ctrsCreated = 0
\* C20 witness: two events handled in Service+restart mode, one relay created.
C20_Witness ==
    /\ ServiceRestart /\ CopyReturned /\ hist.okCopies = 2
    /\ hist.volsCreated = 1 /\ hist.ctrsCreated = 1
    /\ volumes = {hist.relayVol} /\ RelayContainers = {hist.relayCtr}

\* C21: in Container+restart mode the container Copy restarts is the container
\* that received the copy: every start Copy issues in a cycle is addressed to the
\* container the cycle's successful transfer was addressed to, and once the cycle
\* has returned without error the target is that container, running, holding the
\* files of the cycle.
C21_RestartedReceivedCopy ==
    (syncer.targetType = Container /\ syncer.restartTarget) =>
        /\ \A i \in CallsOf(CopyCalls, "start") : \A j \in CallsOf(CopyCalls, "copy") :
              CopyCalls[j].ok => CopyCalls[i].tgt = CopyCalls[j].tgt
        /\ (CopyReturned /\ ~copyErr /\ CallsOf(CopyCalls, "copy") # {}) =>
              \A j \in CallsOf(CopyCalls, "copy") :
                  /\ syncer.target = CopyCalls[j].tgt
                  /\ Exists(syncer.target)
                  /\ containers[syncer.target].state = "running"
                  /\ containers[syncer.target].files = hist.copies

\* ---- the archive
\* The text with every backslash replaced by a slash.
SlashForm(text) == [i \in 1..Len(text) |-> IF text[i] = "\\" THEN "/" ELSE text[i]]
\* The destination path cleaned (trailing and repeated separators and "." elements
\* resolved) and written with slashes.
CleanDestination == SlashForm(Clean(tarHost, tarDest))
\* The entry's path relative to the source root, written with slashes.
RelativeName(n) == Interleave(n, "/")
\* The name of entry n below destination d: d itself for the source root, the
\* relative path alone when d is ".", else d, a slash and the relative path.
NameBelow(d, n) ==
    IF n = <<>> THEN d
    ELSE IF d = <<".">> THEN RelativeName(n)
    ELSE IF d = <<"/">> THEN d \o RelativeName(n)
    ELSE d \o <<"/">> \o RelativeName(n)
IsPrefix(p, text) == Len(p) <= Len(text) /\ SubSeq(text, 1, Len(p)) = p
DirectorySource == tarSource.kind = "dir"

C23_OneEntryPerNode ==
    DirectorySource =>
        /\ \A i, j \in 1..Len(archive) :
              (archive[i].node = archive[j].node \/ archive[i].name = archive[j].name) => i = j
        /\ \A i \in 1..Len(archive) :
              /\ archive[i].node \in tarSource.nodes \cup {<<>>}
              /\ archive[i].dir = IsDir(tarSource, archive[i].node)
        /\ tarPc \in {"close", "built"} =>
              {archive[i].node : i \in 1..Len(archive)} = tarSource.nodes \cup {<<>>}
\* C23 witness: the archive of a tree with a file, a directory holding a file and
\* an empty directory has been built, the empty directory's entry in it.
C23_Witness ==
    /\ DirectorySource /\ tarPc = "built" /\ tarSource.nodes = AllNodes
    /\ Len(archive) = 5
    /\ \E i \in 1..Len(archive) : archive[i].node = <<"sub", "e">> /\ archive[i].dir

\* C24: a container recreation removes the old container and leaves the new one:
\* every removal it makes is addressed to the container it stopped, and once the
\* cycle has returned without error the target id names the container it created,
\* which exists and runs, while the container it stopped is gone.
C24_RecreationRebinds ==
    (syncer.targetType = Container /\ syncer.restartTarget) =>
        /\ \A i \in CallsOf(CopyCalls, "remove") :
              CopyCalls[i].ok =>
                  \E j \in CallsOf(CopyCalls, "stop") : CopyCalls[j].tgt = CopyCalls[i].tgt
        /\ (CopyReturned /\ ~copyErr) =>
              \A i \in CallsOf(CopyCalls, "create") : \A j \in CallsOf(CopyCalls, "stop") :
                  /\ syncer.target = CopyCalls[i].tgt
                  /\ Exists(syncer.target)
                  /\ containers[syncer.target].state = "running"
                  /\ ~Exists(CopyCalls[j].tgt)

\* C25: a relay mount already attached to the service is recognised by the naming
\* convention of relay volumes, whatever run created it, and stripped: the spec
\* every Service+restart cycle submits holds exactly one relay-named mount.
C25_StaleRelayMountStripped ==
    ServiceRestart =>
        \A i \in CallsOf(CopyCalls, "update") :
            Cardinality(RelayMounts(CopyCalls[i].spec.mounts)) = 1

\* A notification of a change of content: Create or Write.
IsChange(event) == Has(event, "Create") \/ Has(event, "Write")
\* C26: every burst of notifications on a regular file that holds at least one
\* Create or Write results, once the path is quiet and the file exists, in an
\* emitted event of that burst that has Create or Write, whatever notification
\* ended the burst.
C26_ChangeBurstEmitsChange ==
    (fsKind[FilePath] = "file" /\ Settled(FilePath) /\ ~fwHist.closed) =>
        \A b \in 1..Len(timers) :
            (\E t \in TimersOf(FilePath) : timers[t].burst = b /\ IsChange(timers[t].event))
                => \E u \in EventsOf(FilePath, b) : IsChange(timers[u].event)

\* The Copy that returned last was a Service+restart cycle whose transfer
\* succeeded and whose service update failed (at the inspect or at the update).
UpdateFailed ==
    /\ ServiceRestart /\ CopyReturned /\ copyErr
    /\ Len(CopyCalls) >= 2
    /\ CopyCalls[1].op = "copy" /\ CopyCalls[1].ok
    /\ CopyCalls[Len(CopyCalls)].op \in {"inspect", "update"}
    /\ ~CopyCalls[Len(CopyCalls)].ok
\* Someone other than the program removed the relay container.
RelayRemovedOutside ==
    /\ hist.relayCtr # Empty /\ ~Exists(hist.relayCtr)
    /\ ~\E i \in CallsOf(calls["sig"], "remove") :
          calls["sig"][i].ok /\ calls["sig"][i].tgt = hist.relayCtr
C28_OneCopyPerChangeEvent ==
    [][/\ \A t \in 1..Len(timers) :
            /\ timers[t].received = "event" =>
                  /\ timers'[t].received = "event"
                  /\ timers'[t].state \in {"unlock", "done"}
            /\ (timers[t].received = "none" /\ timers'[t].received = "event") =>
                  /\ timers[t].state = "send_event" /\ consumerPc = "select"
                  /\ consumerPc' = IF IsChange(timers[t].event) THEN "copy" ELSE "select"
                  /\ \A u \in 1..Len(timers) :
                        u # t => timers'[u].received = timers[u].received
       /\ (consumerPc = "select" /\ consumerPc' = "copy") =>
             \E t \in 1..Len(timers) :
                 /\ timers[t].received = "none" /\ timers'[t].received = "event"
                 /\ IsChange(timers[t].event)]_vars
\* C28 witness: a Remove event was received and no Copy called for it, then a
\* Create or Write event was received and Copy is running for it.
C28_Witness ==
    /\ consumerPc = "copy"
    /\ \E t, u \in 1..Len(timers) :
        /\ t < u
        /\ timers[t].received = "event" /\ timers[t].event = {"Remove"}
        /\ timers[u].received = "event" /\ IsChange(timers[u].event)
        /\ timers[u].state = "unlock"

\* C29: the relay volume and the relay container are created lazily: before the
\* first event that needs a restart is handled none exists and the Syncer names
\* none.
C29_RelayCreatedLazily ==
    hist.copies = 0 =>
        /\ volumes = {} /\ RelayContainers = {}
        /\ syncer.temporaryVolume = Empty /\ syncer.temporaryContainer = Empty

\* C30: for a service without restart every event re-derives the backing
\* container: Copy starts with the lookup, the lookup returns the container of the
\* first task listed as running at that time, and the transfer of the event is
\* addressed to the container that lookup returned, at the destination path.
C30_ServiceContainerRederived ==
    [][(syncer.targetType = Service /\ ~syncer.restartTarget) =>
         /\ (pc["main"] = "select" /\ pc'["main"] # "select") => pc'["main"] = "svcfind"
         /\ (pc["main"] = "svcfind" /\ pc'["main"] = "copy") =>
               LET c == calls'["main"][Len(calls'["main"])]
               IN  /\ c.op = "resolve"
                   /\ c.tgt = IF Len(tasks) = 0 THEN Empty ELSE tasks[1]
                   /\ loc'["main"].container = c.tgt
         /\ \A i \in CallsOf(calls'["main"], "copy") :
               /\ i >= 2
               /\ calls'["main"][i - 1].op = "resolve" /\ calls'["main"][i - 1].ok
               /\ calls'["main"][i].tgt = calls'["main"][i - 1].tgt
               /\ calls'["main"][i].path = TargetPath]_vars
\* C30 witness: the service's task was rescheduled to another container, and the
\* second event's transfer went to the container that backs the service now.
C30_Witness ==
    /\ syncer.targetType = Service /\ ~syncer.restartTarget
    /\ hist.resched = 1 /\ hist.copies = 2 /\ hist.okCopies = 2 /\ CopyReturned
    /\ Len(tasks) = 1 /\ tasks[1] \notin {t[1] : t \in InitialTasks \ {<<>>}}
    /\ Len(CopyCalls) = 2
    /\ CopyCalls[1].op = "resolve" /\ CopyCalls[1].tgt = tasks[1]
    /\ CopyCalls[2].op = "copy" /\ CopyCalls[2].ok /\ CopyCalls[2].tgt = tasks[1]
    /\ containers[tasks[1]].files = 2

\* C31: every access to the pending-timer map is made holding the mutex: Watch
\* holds it from before its lookup until after its insertion, and a timer
\* callback makes its deletion only when Watch does not hold it, so the two never
\* access the map at the same time.
C31_MapUnderMutex ==
    [][/\ (Len(timers') > Len(timers) \/ debounceTimers' # debounceTimers) =>
             \/ watchPc = "select" /\ watchPc' = "locked"
             \/ watchPc # "locked" /\ watchPc' = watchPc
       /\ \A t \in 1..Len(timers) :
             (timers[t].state = "unlock" /\ timers'[t].state = "done") =>
                 watchPc # "locked"]_vars
\* C31 witness: Watch holds the mutex, having recorded a new timer, while the
\* callback of an earlier timer waits to delete its entry.
C31_Witness ==
    /\ watchPc = "locked"
    /\ \E t \in 1..Len(timers) : timers[t].state = "unlock"
    /\ DOMAIN debounceTimers # {}

\* C32: the target kind and the restart flag are fixed once Init has returned: no
\* step of Copy or Cleanup changes them, so every event of a run enters Copy on
\* the same one of the four (kind, restart) paths.
C32_KindFixedAfterInit ==
    [][hist.initRan =>
          /\ syncer'.targetType = syncer.targetType
          /\ syncer'.restartTarget = syncer.restartTarget
          /\ CopyEntry(syncer'.targetType, syncer'.restartTarget)
                = CopyEntry(syncer.targetType, syncer.restartTarget)]_vars
\* C32 witness: a Service+restart run has handled two events and Cleanup has
\* cleared the relay's record; the kind and the flag are as Init left them.
C32_Witness ==
    /\ hist.initOk /\ hist.copies = 2 /\ hist.returned = 2
    /\ pc["sig"] = "cl_exit" /\ ~loc["sig"].err
    /\ hist.relayVol # Empty /\ syncer.temporaryVolume = Empty
    /\ syncer.targetType = Service /\ syncer.restartTarget

\* C33: a timer callback removes from the pending-timer map only the entry of its
\* own timer, and an entry the map holds for a path is the timer started last for
\* that path.
C33_CallbackDeletesOwnEntry ==
    [][/\ \A p \in DOMAIN debounceTimers : debounceTimers[p] = LastTimer(p)
       /\ \A t \in 1..Len(timers) :
             (timers[t].state = "unlock" /\ timers'[t].state = "done") =>
                 \A p \in DOMAIN debounceTimers :
                     debounceTimers[p] # t =>
                         p \in DOMAIN debounceTimers' /\ debounceTimers'[p] = debounceTimers[p]]_vars

\* The positions of the signal goroutine inside Cleanup.
CleanupPcs == CopyPcs \cup {"cl_rmctr", "cl_rmvol"}
\* C34: Cleanup and a Copy in flight never act on the Syncer at the same time, and
\* when the process exits after a Cleanup that returned success in Service mode,
\* the service spec holds no mount of the relay volume and the relay volume and
\* the relay container no longer exist.
C34_CleanupExcludesCopy ==
    /\ ~(pc["sig"] \in CleanupPcs /\ pc["main"] \in CopyPcs)
    /\ (/\ exitCode = 0 /\ syncer.targetType = Service
        /\ pc["sig"] = "cl_exit" /\ ~loc["sig"].err) =>
           /\ \A i \in 1..Len(svc.mounts) :
                 svc.mounts[i].source = Empty \/ svc.mounts[i].source # hist.relayVol
           /\ hist.relayVol \notin volumes
           /\ ~Exists(hist.relayCtr)

\* C35: when no relay was created (the target is a container, or the restart flag
\* is unset), Cleanup issues no stop, create, remove or start of a container and
\* no service update, attempts no removal of a container or volume with an empty
\* name, and returns success.
C35_CleanupWithoutRelayIsNoOp ==
    (hist.initOk /\ ~ServiceRestart) =>
        /\ \A i \in 1..Len(calls["sig"]) :
              /\ calls["sig"][i].op \notin RestartOps \cup {"inspect"}
              /\ calls["sig"][i].op \in {"remove", "volumeRemove"} => calls["sig"][i].tgt # Empty
        /\ pc["sig"] = "cl_exit" => ~loc["sig"].err

\* C36: no relay volume outlives the process: when the relay volume was created
\* and the creation of the relay container failed, the volume is gone once the
\* process has exited.
C36_VolumeRemovedWhenContainerFails ==
    (~Alive /\ hist.volsCreated >= 1 /\ hist.ctrsCreated = 0) => volumes = {}

\* No goroutine of the detector can take a step of its own: Watch is not about to
\* unlock, no timer is pending and no callback is about to take the mutex. What
\* is left can only be a send waiting for a receiver.
DetectorQuiet ==
    /\ watchPc # "locked"
    /\ \A t \in 1..Len(timers) : timers[t].state \notin {"armed", "unlock"}
\* C37: after Close every goroutine of the detector terminates without a receiver
\* being needed: once the detector can take no further step of its own, the Watch
\* loop has returned and no timer callback is blocked sending on Events or Errors.
C37_CloseTerminatesDetector ==
    (fwHist.closed /\ DetectorQuiet) =>
        /\ watchPc = "returned"
        /\ \A t \in 1..Len(timers) : timers[t].state \in {"stopped", "done"}

\* The call of actor a's log that inspected the spec update call i was made from.
InspectBefore(cs, i) ==
    CHOOSE j \in CallsOf(cs, "inspect") :
        j < i /\ \A k \in CallsOf(cs, "inspect") : k < i => k <= j
\* The mounts of a list that are not the relay mount: the relay volume is the one
\* this run created, if it created one.
NotRelay(mounts) ==
    SelectSeq(mounts, LAMBDA m : hist.relayVol = Empty \/ m.source # hist.relayVol)
\* C38: a service update changes only the force-update counter and the mount list
\* of the spec it inspected: every mount that is not the relay mount is kept, in
\* its original order, and the relay mount, when attached, is the last element.
C38_UpdateKeepsOtherMounts ==
    \A a \in Actors :
        \A i \in CallsOf(calls[a], "update") :
            LET new == calls[a][i].spec
                old == calls[a][InspectBefore(calls[a], i)].spec
            IN  /\ new.version = old.version
                /\ new.force = old.force + 1
                /\ NotRelay(new.mounts) = NotRelay(old.mounts)
                /\ \A k \in 1..Len(new.mounts) :
                      (hist.relayVol # Empty /\ new.mounts[k].source = hist.relayVol)
                          => k = Len(new.mounts)

\* C39: round trip of the mount list. After any number of Service+restart cycles
\* followed by a Cleanup that returned success, the service's mount list is the
\* one it had before the first cycle, and the relay volume is removed only after
\* the update that detaches it succeeded.
C39_MountListRoundTrip ==
    /\ (/\ syncer.targetType = Service /\ syncer.restartTarget
        /\ hist.initOk /\ hist.relayVol # Empty
        /\ pc["sig"] = "cl_exit" /\ ~loc["sig"].err) =>
           svc.mounts = hist.mounts0
    /\ \A i \in CallsOf(calls["sig"], "volumeRemove") :
          (calls["sig"][i].ok /\ hist.relayVol # Empty) =>
              \E j \in CallsOf(calls["sig"], "update") :
                  /\ j < i /\ calls["sig"][j].ok
                  /\ \A k \in 1..Len(calls["sig"][j].spec.mounts) :
                        calls["sig"][j].spec.mounts[k].source # hist.relayVol

\* The resolutions of the event being handled that found no container.
FoundNothing ==
    {i \in CallsOf(calls["main"], "resolve") :
        calls["main"][i].ok /\ calls["main"][i].tgt = Empty}
\* C40: when the resolution done while handling an event finds no container (the
\* target container is gone, or the service has no running task), Copy returns an
\* error for that event and attempts no transfer with an empty container id.
C40_NoContainerIsAnError ==
    \A i \in FoundNothing :
        /\ \A j \in CallsOf(calls["main"], "copy") : calls["main"][j].tgt # Empty
        /\ pc["main"] \notin CopyPcs => copyErr

====
